---- MODULE Spec2Model ----
(***************************************************************************)
(* A model of the dashboard engine of fusabi-tui-runtime                   *)
(* (crates/fusabi-tui-engine/src/dashboard.rs) together with the error     *)
(* overlay it owns (crates/fusabi-tui-engine/src/overlay.rs).              *)
(*                                                                         *)
(* The engine's collaborators FileLoader, FileWatcher, DashboardState and  *)
(* Event live in modules that are not part of the source tree at hand;     *)
(* they are modelled from their documented contracts.  The file system and *)
(* the terminal are the environment: what a file holds when it is read,    *)
(* which paths the operating system refuses to watch and whether the       *)
(* renderer's calls succeed are inputs of the operation that asks.         *)
(***************************************************************************)
EXTENDS Integers, Sequences, FiniteSets, TLC

\* ------------------------------------------------------------------------
\* Bounds and value sets
\* ------------------------------------------------------------------------

\* Largest elapsed time (in ticks) an overlay update observes.
MaxElapsed == 1

\* Largest auto-dismiss duration, and latest time after an overlay's
\* timestamp, of an overlay used on its own (in ticks).
MaxDuration == 2

\* Largest width and height of a buffer, and the most calls made on one.
MaxWidth == 3

MaxHeight == 2

MaxCalls == 2

\* The longest list of constraints of a layout.
MaxConstraints == 3

\* The widest margin of a layout.
MaxMargin == 1

\* The highest inner area of an error panel.
MaxPanelHeight == 15

\* The longest side of the small areas an overlay is rendered into.
MaxSide == 10

\* The largest x and the largest width of the rects that are compared.
MaxCoord == 2

\* Resolved (absolute) paths of the files the host can name.
Paths == {"a.fsx", "b.fsx"}

\* Option<T>: None is the empty sequence, Some(x) the one-element sequence.
None == <<>>

Some(x) == <<x>>

IsSome(o) == o # <<>>

Unwrap(o) == o[1]

\* What the file system may hold at `path` at the moment it is read: nothing,
\* or a file that declares no dependency or one other file as its dependency.
FileContents(path) ==
  {[exists |-> FALSE, dependencies |-> <<>>],
   [exists |-> TRUE, dependencies |-> <<>>]}
    \cup {[exists |-> TRUE, dependencies |-> <<q>>] : q \in Paths \ {path}}

\* Terminal sizes the renderer reports.
Sizes == {[width |-> 80, height |-> 24], [width |-> 1000, height |-> 24]}

\* The errors a host can hand to show_error.
EngineErrors == {"LoadError", "InvalidState"}

\* u16 arithmetic
U16 == 65536

\* ------------------------------------------------------------------------
\* FileLoader (crate::loader): a cache from resolved path to the dependency
\* list found when the file was read (None: not cached).
\* ------------------------------------------------------------------------

\* FileLoader::new(): nothing cached.
FileLoaderNew == [p \in Paths |-> None]

\* FileLoader::get(path): the cached entry, if any.
loader_get(cache, path) == cache[path]

\* FileLoader::load(path): the cached entry if there is one, else the file as
\* it is on disk now, which is then cached; fails when the file is missing.
loader_load(cache, path, file) ==
  IF IsSome(cache[path])
    THEN [ok |-> TRUE, cache |-> cache, dependencies |-> Unwrap(cache[path])]
  ELSE IF ~file.exists
    THEN [ok |-> FALSE, cache |-> cache, dependencies |-> <<>>]
  ELSE [ok |-> TRUE,
        cache |-> [cache EXCEPT ![path] = Some(file.dependencies)],
        dependencies |-> file.dependencies]

\* The cached files that depend, directly or through other cached files, on a
\* file of S (S included).
RECURSIVE Dependents(_, _)
Dependents(cache, S) ==
  LET T == S \cup {q \in Paths :
                     /\ IsSome(cache[q])
                     /\ \E i \in 1..Len(Unwrap(cache[q])) : Unwrap(cache[q])[i] \in S}
  IN  IF T = S THEN S ELSE Dependents(cache, T)

\* FileLoader::invalidate(path): drops path and everything depending on it.
loader_invalidate(cache, path) ==
  [q \in Paths |-> IF q \in Dependents(cache, {path}) THEN None ELSE cache[q]]

\* ------------------------------------------------------------------------
\* FileWatcher (crate::watcher): the set of watched paths.  Which of them
\* have changed and debounced since the last poll is the file system's
\* doing: poll's answer is an input of the poll.
\* ------------------------------------------------------------------------

\* FileWatcher::new(debounce_ms)
FileWatcherNew == [watched |-> {}]

\* FileWatcher::watch(path), when the operating system accepts the path.
watcher_watch(w, path) == [w EXCEPT !.watched = @ \cup {path}]

\* FileWatcher::poll(): the changed paths, `changed` being the paths that
\* changed on disk since the last poll; only watched paths are reported.
watcher_poll(w, changed) == changed \cap w.watched

\* ------------------------------------------------------------------------
\* ErrorOverlay (overlay.rs)
\* ------------------------------------------------------------------------

\* ErrorMessage::from_engine_error: the title chosen for each error.
ErrorTitle(error) ==
  CASE error = "LoadError"    -> "Load Error"
    [] error = "WatchError"   -> "Watch Error"
    [] error = "Render"       -> "Render Error"
    [] error = "InvalidState" -> "Invalid State"
    [] OTHER                  -> "Error"

\* ErrorOverlay::from_engine_error / ErrorOverlay::new: visible, no timer.
ErrorOverlayNew(error) ==
  [title |-> ErrorTitle(error), visible |-> TRUE, auto_dismiss_after |-> None]

\* ErrorOverlay::is_visible
is_visible(o) == o.visible

\* ErrorOverlay::with_auto_dismiss
with_auto_dismiss(o, duration) == [o EXCEPT !.auto_dismiss_after = Some(duration)]

\* ErrorOverlay::dismiss
dismiss(o) == [o EXCEPT !.visible = FALSE]

\* ErrorOverlay::show (it also resets the timestamp, see Show)
show(o) == [o EXCEPT !.visible = TRUE]

\* Mutant of overlay_update: the deadline must have passed, not just arrived.
overlay_update_after_deadline(o, elapsed) ==
  IF IsSome(o.auto_dismiss_after) /\ elapsed > Unwrap(o.auto_dismiss_after)
    THEN [o EXCEPT !.visible = FALSE]
    ELSE o

\* Mutant of overlay_update: visibility is recomputed from the deadline.
overlay_update_recomputes(o, elapsed) ==
  IF IsSome(o.auto_dismiss_after)
    THEN [o EXCEPT !.visible = elapsed < Unwrap(o.auto_dismiss_after)]
    ELSE o

\* ErrorOverlay::update, `elapsed` after the overlay's timestamp.
overlay_update(o, elapsed) ==
  IF IsSome(o.auto_dismiss_after) /\ elapsed >= Unwrap(o.auto_dismiss_after)
    THEN [o EXCEPT !.visible = FALSE]
    ELSE o

\* ErrorOverlay::centered_rect multiplies in u16: whether width * percent_x or
\* height * percent_y leaves the 16-bit range for this area.
CenteredRectOverflows(percent_x, percent_y, area) ==
  area.width * percent_x >= U16 \/ area.height * percent_y >= U16

\* ------------------------------------------------------------------------
\* Events (crate::event)
\* ------------------------------------------------------------------------

FileChange(path) == [kind |-> "FileChange", path |-> path, code |-> "", ctrl |-> FALSE]

Resize == [kind |-> "Resize", path |-> "", code |-> "", ctrl |-> FALSE]

Key(code, ctrl) == [kind |-> "Key", path |-> "", code |-> code, ctrl |-> ctrl]

Tick == [kind |-> "Tick", path |-> "", code |-> "", ctrl |-> FALSE]

\* No event: the operation at hand is not handle_event.
NoEvent == [kind |-> "", path |-> "", code |-> "", ctrl |-> FALSE]

KeyCodes == {"c", "r", "d"}

\* The events that make handle_event reload.
ReloadEvents == {FileChange(p) : p \in Paths} \cup {Key("r", TRUE)}

Events ==
  ReloadEvents \cup {Resize, Tick, Key("q", TRUE)}
    \cup {Key(c, m) : c \in KeyCodes, m \in BOOLEAN}

\* ------------------------------------------------------------------------
\* DashboardState (crate::state)
\* ------------------------------------------------------------------------

\* DashboardState::mark_dirty
mark_dirty(st) == [st EXCEPT !.dirty = TRUE]

\* DashboardState::clear_dirty
clear_dirty(st) == [st EXCEPT !.dirty = FALSE]

\* ------------------------------------------------------------------------
\* DashboardEngine (dashboard.rs).  An engine value e has the struct's fields
\* and, in e.calls, the calls the operation in progress has made on the
\* loader, the watcher, the renderer and the overlay, in order.
\* ------------------------------------------------------------------------

Call(op, path, ok) == [op |-> op, path |-> path, ok |-> ok]

Log(e, op, path, ok) == [e EXCEPT !.calls = Append(@, Call(op, path, ok))]

\* `watcher.watch(p)?` for each p of `paths` in order: stops at the first path
\* the watcher refuses.  Only used when e.watcher is present.
RECURSIVE watch_all(_, _, _)
watch_all(e, paths, refused) ==
  IF paths = <<>> THEN [e |-> e, ok |-> TRUE]
  ELSE IF Head(paths) \in refused
    THEN [e |-> Log(e, "watch", Head(paths), FALSE), ok |-> FALSE]
  ELSE watch_all(
         Log([e EXCEPT !.watcher = Some(watcher_watch(Unwrap(@), Head(paths)))],
             "watch", Head(paths), TRUE),
         Tail(paths), refused)

\* Mutant of show_error: an overlay already shown is kept, not replaced.
show_error_keeps_overlay(e, error) ==
  IF IsSome(e.error_overlay)
    THEN [e EXCEPT !.state = mark_dirty(@)]
    ELSE [e EXCEPT !.error_overlay = Some(ErrorOverlayNew(error)),
                   !.state = mark_dirty(@)]

\* DashboardEngine::show_error
show_error(e, error) ==
  [e EXCEPT !.error_overlay = Some(ErrorOverlayNew(error)),
            !.state = mark_dirty(@)]

\* Mutant of dismiss_error: the overlay is hidden, not removed.
dismiss_error_hides(e) ==
  IF IsSome(e.error_overlay)
    THEN [e EXCEPT !.error_overlay = Some(dismiss(Unwrap(@))), !.state = mark_dirty(@)]
    ELSE e

\* Mutant of dismiss_error: the overlay is dropped without marking dirty.
dismiss_error_not_dirty(e) == [e EXCEPT !.error_overlay = None]

\* DashboardEngine::dismiss_error
dismiss_error(e) ==
  IF IsSome(e.error_overlay)
    THEN [e EXCEPT !.error_overlay = None, !.state = mark_dirty(@)]
    ELSE e

\* DashboardEngine::has_error
has_error(e) ==
  IF IsSome(e.error_overlay) THEN is_visible(Unwrap(e.error_overlay)) ELSE FALSE

\* Mutant of load_failed: a failed load surfaces the error overlay itself.
load_failed_shows_error(e) ==
  [e |-> [e EXCEPT !.error_overlay = Some(ErrorOverlayNew("LoadError")),
                   !.state = [@ EXCEPT !.dirty = TRUE]],
   result |-> "LoadError"]

\* `self.loader.load(&path)?` in load, when the loader fails: the error is
\* returned and nothing else is done.
load_failed(e) == [e |-> e, result |-> "LoadError"]

\* Mutant of load: a successful load drops the error overlay.
load_dismisses_overlay(e, entry, file, refused) ==
  LET loaded == loader_load(e.loader, entry, file)
      e1 == Log([e EXCEPT !.loader = loaded.cache], "load", entry, loaded.ok)
      e2 == [e1 EXCEPT !.entry_file = Some(entry)]
      w  == watch_all(e2, <<entry>> \o loaded.dependencies, refused)
  IN  IF ~loaded.ok THEN load_failed(e1)
      ELSE IF IsSome(e2.watcher)
        THEN IF ~w.ok
               THEN [e |-> w.e, result |-> "WatchError"]
               ELSE [e |-> [w.e EXCEPT !.state = mark_dirty(@), !.error_overlay = None],
                     result |-> "Ok"]
      ELSE [e |-> [e2 EXCEPT !.state = mark_dirty(@), !.error_overlay = None],
            result |-> "Ok"]

\* DashboardEngine::load.  `file` is what the disk holds at `entry` now,
\* `refused` the paths the watcher cannot register now.
load(e, entry, file, refused) ==
  LET loaded == loader_load(e.loader, entry, file)
      e1 == Log([e EXCEPT !.loader = loaded.cache], "load", entry, loaded.ok)
      e2 == [e1 EXCEPT !.entry_file = Some(entry)]
      w  == watch_all(e2, <<entry>> \o loaded.dependencies, refused)
  IN  IF ~loaded.ok THEN load_failed(e1)
      ELSE IF IsSome(e2.watcher)
        THEN IF ~w.ok
               THEN [e |-> w.e, result |-> "WatchError"]
               ELSE [e |-> [w.e EXCEPT !.state = mark_dirty(@)], result |-> "Ok"]
      ELSE [e |-> [e2 EXCEPT !.state = mark_dirty(@)], result |-> "Ok"]

\* DashboardEngine::reload
reload(e, file, refused) ==
  IF ~IsSome(e.entry_file) THEN [e |-> e, result |-> "InvalidState"]
  ELSE
    LET entry_path == Unwrap(e.entry_file)
        e1 == Log([e EXCEPT !.loader = loader_invalidate(@, entry_path)],
                  "invalidate", entry_path, TRUE)
        loaded == loader_load(e1.loader, entry_path, file)
        e2 == Log([e1 EXCEPT !.loader = loaded.cache], "load", entry_path, loaded.ok)
        w  == watch_all(e2, loaded.dependencies, refused)
    IN  IF ~loaded.ok THEN [e |-> e2, result |-> "LoadError"]
        ELSE IF IsSome(e2.watcher)
          THEN IF ~w.ok
                 THEN [e |-> w.e, result |-> "WatchError"]
                 ELSE [e |-> [w.e EXCEPT !.state = mark_dirty(@)], result |-> "Ok"]
        ELSE [e |-> [e2 EXCEPT !.state = mark_dirty(@)], result |-> "Ok"]

\* The content step of render: the callback if one is set, else the
\* placeholder of a loaded file, else the placeholder of an empty engine.
paint(e) ==
  IF e.render_callback THEN Log(e, "callback", "", TRUE)
  ELSE IF IsSome(e.entry_file) THEN Log(e, "render_placeholder", "", TRUE)
  ELSE Log(e, "render_empty_state", "", TRUE)

\* The overlay step of render: update, then render if still visible.
overlay_step(e, elapsed) ==
  IF IsSome(e.error_overlay)
    THEN LET updated == overlay_update(Unwrap(e.error_overlay), elapsed)
             e1 == Log([e EXCEPT !.error_overlay = Some(updated)], "update", "", TRUE)
         IN  IF is_visible(updated) THEN Log(e1, "overlay_render", "", TRUE) ELSE e1
    ELSE e

\* Mutant of render: the overlay is updated and rendered after the draw.
render_draws_before_overlay(e, size, drawOk, flushOk, elapsed, overflow_checks) ==
  IF ~IsSome(size) THEN [e |-> Log(e, "size", "", FALSE), result |-> "Render"]
  ELSE
    LET e1 == paint(Log(e, "size", "", TRUE))
        e2 == Log(e1, "draw", "", drawOk)
        e3 == overlay_step(e2, elapsed)
        e4 == Log(e3, "flush", "", flushOk)
    IN  IF ~drawOk THEN [e |-> e2, result |-> "Render"]
        ELSE IF /\ has_error(e3)
                /\ CenteredRectOverflows(80, 60, Unwrap(size))
                /\ overflow_checks
          THEN [e |-> e3, result |-> "Panic"]
        ELSE IF ~flushOk THEN [e |-> e4, result |-> "Render"]
        ELSE [e |-> [e4 EXCEPT !.state = clear_dirty(@)], result |-> "Ok"]

\* Mutant of render: the dirty flag is cleared before draw and flush.
render_clears_dirty_first(e, size, drawOk, flushOk, elapsed, overflow_checks) ==
  IF ~IsSome(size) THEN [e |-> Log(e, "size", "", FALSE), result |-> "Render"]
  ELSE
    LET e1 == paint(Log(e, "size", "", TRUE))
        e2 == overlay_step(e1, elapsed)
        e3 == Log([e2 EXCEPT !.state = clear_dirty(@)], "draw", "", drawOk)
        e4 == Log(e3, "flush", "", flushOk)
    IN  IF /\ has_error(e2)
           /\ CenteredRectOverflows(80, 60, Unwrap(size))
           /\ overflow_checks
          THEN [e |-> e2, result |-> "Panic"]
        ELSE IF ~drawOk THEN [e |-> e3, result |-> "Render"]
        ELSE IF ~flushOk THEN [e |-> e4, result |-> "Render"]
        ELSE [e |-> e4, result |-> "Ok"]

\* DashboardEngine::render.  `size` is what renderer.size() answers (None: it
\* fails), `drawOk` and `flushOk` whether draw and flush succeed, `elapsed`
\* the time since the overlay was shown, `overflow_checks` whether the build
\* traps on integer overflow (centered_rect then panics instead of wrapping).
render(e, size, drawOk, flushOk, elapsed, overflow_checks) ==
  IF ~IsSome(size) THEN [e |-> Log(e, "size", "", FALSE), result |-> "Render"]
  ELSE
    LET e1 == paint(Log(e, "size", "", TRUE))
        e2 == overlay_step(e1, elapsed)
        e3 == Log(e2, "draw", "", drawOk)
        e4 == Log(e3, "flush", "", flushOk)
    IN  IF /\ has_error(e2)
           /\ CenteredRectOverflows(80, 60, Unwrap(size))
           /\ overflow_checks
          THEN [e |-> e2, result |-> "Panic"]
        ELSE IF ~drawOk THEN [e |-> e3, result |-> "Render"]
        ELSE IF ~flushOk THEN [e |-> e4, result |-> "Render"]
        ELSE [e |-> [e4 EXCEPT !.state = clear_dirty(@)], result |-> "Ok"]

\* Mutant of enable_hot_reload_with_debounce: only the entry is registered,
\* its dependencies are not.
enable_hot_reload_entry_only(e, newOk, refused) ==
  IF ~newOk THEN [e |-> Log(e, "new", "", FALSE), result |-> "WatchError"]
  ELSE
    LET e1 == Log([e EXCEPT !.watcher = Some(FileWatcherNew)], "new", "", TRUE)
        w == watch_all(e1, <<Unwrap(e.entry_file)>>, refused)
    IN  IF ~IsSome(e.entry_file) THEN [e |-> e1, result |-> "Ok"]
        ELSE IF ~w.ok THEN [e |-> w.e, result |-> "WatchError"]
        ELSE [e |-> w.e, result |-> "Ok"]

\* DashboardEngine::enable_hot_reload_with_debounce.  `newOk`: whether
\* FileWatcher::new succeeds.
enable_hot_reload_with_debounce(e, newOk, refused) ==
  IF ~newOk THEN [e |-> Log(e, "new", "", FALSE), result |-> "WatchError"]
  ELSE
    LET e1 == Log([e EXCEPT !.watcher = Some(FileWatcherNew)], "new", "", TRUE)
        entry_path == Unwrap(e.entry_file)
        loaded == loader_get(e1.loader, entry_path)
        deps == IF IsSome(loaded) THEN Unwrap(loaded) ELSE <<>>
        w == watch_all(e1, <<entry_path>> \o deps, refused)
    IN  IF ~IsSome(e.entry_file) THEN [e |-> e1, result |-> "Ok"]
        ELSE IF ~w.ok THEN [e |-> w.e, result |-> "WatchError"]
        ELSE [e |-> w.e, result |-> "Ok"]

\* Mutant of disable_hot_reload: the watcher is kept.
disable_hot_reload_keeps_watcher(e) == e

\* DashboardEngine::disable_hot_reload
disable_hot_reload(e) == [e EXCEPT !.watcher = None]

\* DashboardEngine::is_hot_reload_enabled
is_hot_reload_enabled(e) == IsSome(e.watcher)

\* DashboardEngine::poll_changes: Some(changed paths), or None without a
\* watcher.
poll_changes(e, changed) ==
  IF IsSome(e.watcher)
    THEN Some(watcher_poll(Unwrap(e.watcher), changed))
    ELSE None

\* Mutant of after_reload: the reload's error is swallowed.
after_reload_swallows_error(result) == "Render"

\* `self.reload()?; return Ok(Action::Render)`: the action handle_event
\* answers after the reload it triggered ended with `result`.
after_reload(result) == IF result = "Ok" THEN "Render" ELSE result

\* Mutant of handle_event: while an overlay is shown, Ctrl+C dismisses it
\* instead of quitting.
handle_event_overlay_takes_ctrl_c(e, event, file, refused) ==
  IF event.kind = "FileChange" THEN
    LET e1 == Log([e EXCEPT !.loader = loader_invalidate(@, event.path)],
                  "invalidate", event.path, TRUE)
        r == reload(e1, file, refused)
    IN  [e |-> r.e, result |-> after_reload(r.result), reloaded |-> Some(r.result)]
  ELSE IF event.kind = "Resize" THEN
    [e |-> [e EXCEPT !.state = mark_dirty(@)], result |-> "Render", reloaded |-> None]
  ELSE IF event.kind = "Key" /\ event.code = "c" /\ event.ctrl /\ ~has_error(e) THEN
    [e |-> e, result |-> "Quit", reloaded |-> None]
  ELSE IF event.kind = "Key" /\ event.code = "r" /\ event.ctrl THEN
    LET r == reload(e, file, refused)
    IN  [e |-> r.e, result |-> after_reload(r.result), reloaded |-> Some(r.result)]
  ELSE IF event.kind = "Key" /\ event.code \in {"c", "d"} /\ event.ctrl /\ has_error(e) THEN
    [e |-> dismiss_error(e), result |-> "Render", reloaded |-> None]
  ELSE [e |-> e, result |-> "None", reloaded |-> None]

\* DashboardEngine::handle_event.  `reloaded` is the result of the reload the
\* event triggered, None when it triggered none.
handle_event(e, event, file, refused) ==
  IF event.kind = "FileChange" THEN
    LET e1 == Log([e EXCEPT !.loader = loader_invalidate(@, event.path)],
                  "invalidate", event.path, TRUE)
        r == reload(e1, file, refused)
    IN  [e |-> r.e, result |-> after_reload(r.result), reloaded |-> Some(r.result)]
  ELSE IF event.kind = "Resize" THEN
    [e |-> [e EXCEPT !.state = mark_dirty(@)], result |-> "Render", reloaded |-> None]
  ELSE IF event.kind = "Key" /\ event.code = "c" /\ event.ctrl THEN
    [e |-> e, result |-> "Quit", reloaded |-> None]
  ELSE IF event.kind = "Key" /\ event.code = "r" /\ event.ctrl THEN
    LET r == reload(e, file, refused)
    IN  [e |-> r.e, result |-> after_reload(r.result), reloaded |-> Some(r.result)]
  ELSE IF event.kind = "Key" /\ event.code = "d" /\ event.ctrl /\ has_error(e) THEN
    [e |-> dismiss_error(e), result |-> "Render", reloaded |-> None]
  ELSE [e |-> e, result |-> "None", reloaded |-> None]

\* ------------------------------------------------------------------------
\* Rect (fusabi-tui-core/src/layout.rs)
\* ------------------------------------------------------------------------

\* u16::saturating_add
saturating_add(a, b) == IF a + b > U16 - 1 THEN U16 - 1 ELSE a + b

\* u16::saturating_sub
saturating_sub(a, b) == IF a < b THEN 0 ELSE a - b

\* Rect::new
Rect(x, y, width, height) == [x |-> x, y |-> y, width |-> width, height |-> height]

\* Rect::left
left(r) == r.x

\* Rect::right
right(r) == saturating_add(r.x, r.width)

\* Rect::top
top(r) == r.y

\* Rect::bottom
bottom(r) == saturating_add(r.y, r.height)

\* Rect::contains
contains(r, x, y) == x >= left(r) /\ x < right(r) /\ y >= top(r) /\ y < bottom(r)

\* Rect::intersects
intersects(r, o) ==
  r.x < right(o) /\ right(r) > o.x /\ r.y < bottom(o) /\ bottom(r) > o.y

\* std::cmp::min
min(a, b) == IF a < b THEN a ELSE b

\* std::cmp::max
max(a, b) == IF a > b THEN a ELSE b

\* u16::saturating_mul
saturating_mul(a, b) == IF a * b > U16 - 1 THEN U16 - 1 ELSE a * b

\* Rect::default
RectDefault == Rect(0, 0, 0, 0)

\* Rect::inner
inner(r, margin) ==
  LET doubled_margin == saturating_mul(margin, 2)
  IN  IF r.width < doubled_margin \/ r.height < doubled_margin
        THEN RectDefault
        ELSE Rect(saturating_add(r.x, margin), saturating_add(r.y, margin),
                  saturating_sub(r.width, doubled_margin),
                  saturating_sub(r.height, doubled_margin))

\* ------------------------------------------------------------------------
\* Constraint and Layout (fusabi-tui-core/src/layout.rs)
\* ------------------------------------------------------------------------

\* Constraint::Length(n) and the other variants
Length(n) == [kind |-> "Length", n |-> n, d |-> 0]

Percentage(n) == [kind |-> "Percentage", n |-> n, d |-> 0]

Ratio(n, d) == [kind |-> "Ratio", n |-> n, d |-> d]

Min(n) == [kind |-> "Min", n |-> n, d |-> 0]

Max(n) == [kind |-> "Max", n |-> n, d |-> 0]

Fill(n) == [kind |-> "Fill", n |-> n, d |-> 0]

\* Mutant of apply: Min caps the length as Length does.
apply_min_caps(constraint, length) ==
  CASE constraint.kind \in {"Length", "Min", "Max"} -> min(length, constraint.n)
    [] constraint.kind = "Percentage" -> (length * min(constraint.n, 100)) \div 100
    [] constraint.kind = "Ratio" ->
         IF constraint.d = 0 THEN 0
         ELSE ((length * constraint.n) \div constraint.d) % U16
    [] constraint.kind = "Fill" -> length

\* Constraint::apply.  Ratio multiplies in u32 and casts the quotient to
\* u16; the product of a u16 length and a numerator below 2^16 stays within
\* u32, and the numerators used here are that small.
apply(constraint, length) ==
  CASE constraint.kind = "Length" -> min(length, constraint.n)
    [] constraint.kind = "Percentage" -> (length * min(constraint.n, 100)) \div 100
    [] constraint.kind = "Ratio" ->
         IF constraint.d = 0 THEN 0
         ELSE ((length * constraint.n) \div constraint.d) % U16
    [] constraint.kind = "Min" -> max(length, constraint.n)
    [] constraint.kind = "Max" -> min(length, constraint.n)
    [] constraint.kind = "Fill" -> length

\* Layout::default
LayoutDefault == [direction |-> "Vertical", margin |-> 0, constraints |-> <<>>]

\* The length split divides: the height when splitting vertically.
main_axis_size(direction, a) == IF direction = "Horizontal" THEN a.width ELSE a.height

cross_axis_size(direction, a) == IF direction = "Horizontal" THEN a.height ELSE a.width

\* Mutant of first_pass: every constraint takes its share of what remains.
RECURSIVE first_pass_of_remaining(_, _, _, _, _)
first_pass_of_remaining(constraints, whole, sizes, remaining, fill_count) ==
  IF Len(sizes) = Len(constraints)
    THEN [sizes |-> sizes, remaining |-> remaining, fill_count |-> fill_count]
    ELSE
      LET constraint == constraints[Len(sizes) + 1]
          size == apply(constraint, remaining)
      IN  IF constraint.kind = "Fill"
            THEN first_pass_of_remaining(constraints, whole, Append(sizes, 0),
                                         remaining, fill_count + 1)
            ELSE first_pass_of_remaining(constraints, whole, Append(sizes, size),
                                         saturating_sub(remaining, size), fill_count)

\* split, first pass, from the constraint after those that have a size:
\* Percentage and Ratio take their share of the whole length, Length, Min
\* and Max theirs of what remains, Fill is counted.
RECURSIVE first_pass(_, _, _, _, _)
first_pass(constraints, whole, sizes, remaining, fill_count) ==
  IF Len(sizes) = Len(constraints)
    THEN [sizes |-> sizes, remaining |-> remaining, fill_count |-> fill_count]
    ELSE
      LET constraint == constraints[Len(sizes) + 1]
          of == IF constraint.kind \in {"Percentage", "Ratio"} THEN whole ELSE remaining
          size == apply(constraint, of)
      IN  IF constraint.kind = "Fill"
            THEN first_pass(constraints, whole, Append(sizes, 0), remaining,
                            fill_count + 1)
            ELSE first_pass(constraints, whole, Append(sizes, size),
                            saturating_sub(remaining, size), fill_count)

\* Mutant of second_pass: the remainder is dropped.
second_pass_drops_remainder(constraints, sizes, remaining, fill_count) ==
  IF fill_count > 0
    THEN [i \in 1..Len(sizes) |->
            IF constraints[i].kind = "Fill"
              THEN remaining \div (fill_count % U16)
              ELSE sizes[i]]
    ELSE sizes

\* split, second pass: the Fill constraints share what remains, the first
\* `remaining % fill_count` of them getting one more.
second_pass(constraints, sizes, remaining, fill_count) ==
  IF fill_count > 0
    THEN
      LET fill_size == remaining \div (fill_count % U16)
          fill_remainder == remaining % (fill_count % U16)
          fills_before(i) ==
            Cardinality({j \in 1..(i - 1) : constraints[j].kind = "Fill"})
      IN  [i \in 1..Len(sizes) |->
             IF constraints[i].kind = "Fill"
               THEN IF fills_before(i) < fill_remainder THEN fill_size + 1 ELSE fill_size
               ELSE sizes[i]]
    ELSE sizes

\* split, third pass: Min and Max clamp the size.
third_pass(constraints, sizes) ==
  [i \in 1..Len(sizes) |->
     CASE constraints[i].kind = "Min" /\ sizes[i] < constraints[i].n -> constraints[i].n
       [] constraints[i].kind = "Max" /\ sizes[i] > constraints[i].n -> constraints[i].n
       [] OTHER -> sizes[i]]

\* The sizes split gives the constraints for a main axis of length `whole`.
split_sizes(constraints, whole) ==
  LET first == first_pass(constraints, whole, <<>>, whole, 0)
  IN  third_pass(constraints,
                 second_pass(constraints, first.sizes, first.remaining, first.fill_count))

\* The sum of the first i sizes.
RECURSIVE offset_after(_, _)
offset_after(sizes, i) == IF i = 0 THEN 0 ELSE offset_after(sizes, i - 1) + sizes[i]

\* Mutant of split: the cross axis is that of the area before the margin.
split_cross_of_outer(layout, area, overflow_checks) ==
  LET a == inner(area, layout.margin)
      sizes == split_sizes(layout.constraints, main_axis_size(layout.direction, a))
  IN  IF layout.constraints = <<>> THEN [panicked |-> FALSE, rects |-> <<a>>]
      ELSE [panicked |-> FALSE,
            rects |->
              [i \in 1..Len(sizes) |->
                 IF layout.direction = "Horizontal"
                   THEN Rect((a.x + offset_after(sizes, i - 1)) % U16, area.y,
                             sizes[i], area.height)
                   ELSE Rect(area.x, (a.y + offset_after(sizes, i - 1)) % U16,
                             area.width, sizes[i])]]

\* Layout::split.  area.x + offset and offset += size are u16 sums: out of
\* range they panic in a build with overflow checks and wrap around in one
\* without.
split(layout, area, overflow_checks) ==
  LET a == inner(area, layout.margin)
      whole == main_axis_size(layout.direction, a)
      sizes == split_sizes(layout.constraints, whole)
      origin == IF layout.direction = "Horizontal" THEN a.x ELSE a.y
      overflows ==
        \E i \in 1..Len(sizes) :
          \/ origin + (offset_after(sizes, i - 1) % U16) >= U16
          \/ (offset_after(sizes, i - 1) % U16) + sizes[i] >= U16
  IN  IF layout.constraints = <<>> THEN [panicked |-> FALSE, rects |-> <<a>>]
      ELSE IF overflow_checks /\ overflows THEN [panicked |-> TRUE, rects |-> <<>>]
      ELSE [panicked |-> FALSE,
            rects |->
              [i \in 1..Len(sizes) |->
                 IF layout.direction = "Horizontal"
                   THEN Rect((a.x + offset_after(sizes, i - 1)) % U16, a.y,
                             sizes[i], cross_axis_size(layout.direction, a))
                   ELSE Rect(a.x, (a.y + offset_after(sizes, i - 1)) % U16,
                             cross_axis_size(layout.direction, a), sizes[i])]]

\* ErrorOverlay::centered_rect.  area.width * percent_x, area.height *
\* percent_y, margin * 2 and area.x + margin are u16 operations: out of range
\* they panic in a build with overflow checks and wrap around in one without.
centered_rect(percent_x, percent_y, area, overflow_checks) ==
  LET horizontal_margin ==
        saturating_sub(area.width, ((area.width * percent_x) % U16) \div 100) \div 2
      vertical_margin ==
        saturating_sub(area.height, ((area.height * percent_y) % U16) \div 100) \div 2
      overflows ==
        \/ area.width * percent_x >= U16
        \/ area.height * percent_y >= U16
        \/ area.x + horizontal_margin >= U16
        \/ area.y + vertical_margin >= U16
        \/ horizontal_margin * 2 >= U16
        \/ vertical_margin * 2 >= U16
  IN  IF overflow_checks /\ overflows THEN [panicked |-> TRUE, rect |-> RectDefault]
      ELSE [panicked |-> FALSE,
            rect |-> Rect((area.x + horizontal_margin) % U16,
                          (area.y + vertical_margin) % U16,
                          saturating_sub(area.width, (horizontal_margin * 2) % U16),
                          saturating_sub(area.height, (vertical_margin * 2) % U16))]

\* ------------------------------------------------------------------------
\* Cell and Buffer (fusabi-tui-core/src/buffer.rs)
\* ------------------------------------------------------------------------

\* Cell::default
CellDefault == [symbol |-> " ", fg |-> "Reset", bg |-> "Reset", modifier |-> {}]

\* Cell::new
CellNew(symbol) == [CellDefault EXCEPT !.symbol = symbol]

\* Cell::set_style: fg and bg are overwritten only when the style sets them,
\* the modifiers are united (Modifier::insert is a bitwise or).
cell_set_style(cell, style) ==
  [cell EXCEPT !.fg = IF IsSome(style.fg) THEN Unwrap(style.fg) ELSE @,
               !.bg = IF IsSome(style.bg) THEN Unwrap(style.bg) ELSE @,
               !.modifier = @ \cup style.modifiers]

\* Cell::reset
cell_reset(cell) == CellDefault

\* Buffer::new: area and width * height default cells, in row-major order.
BufferNew(area) ==
  [area |-> area, content |-> [i \in 1..(area.width * area.height) |-> CellDefault]]

\* Buffer::filled
BufferFilled(area, cell) ==
  [area |-> area, content |-> [i \in 1..(area.width * area.height) |-> cell]]

\* Mutant of index_of: the bounds test lets x = width and y = height through.
index_of_inclusive(buf, x, y) ==
  IF x > buf.area.width \/ y > buf.area.height
    THEN None
    ELSE Some(y * buf.area.width + x)

\* Buffer::index_of: the 0-based index of the cell at (x, y), None out of
\* bounds.  x and y are relative to the buffer: area.x and area.y play no part.
index_of(buf, x, y) ==
  IF x >= buf.area.width \/ y >= buf.area.height
    THEN None
    ELSE Some(y * buf.area.width + x)

\* Buffer::get (content is 1-based here)
get(buf, x, y) ==
  LET i == index_of(buf, x, y)
  IN  IF IsSome(i) THEN Some(buf.content[Unwrap(i) + 1]) ELSE None

\* UnicodeWidthStr::width of one character: "a" and "b" are narrow, "W"
\* stands for a wide (two-column) glyph such as a CJK ideograph, "z" for a
\* zero-width character such as a combining mark.
unicode_width(grapheme) ==
  CASE grapheme = "W" -> 2
    [] grapheme = "z" -> 0
    [] OTHER          -> 1

\* The body of set_string's loop, from the character at the head of `string`
\* with the cursor at current_x.
RECURSIVE set_string_from(_, _, _, _, _, _)
set_string_from(buf, current_x, y, string, style, written) ==
  IF string = <<>> \/ current_x >= buf.area.width
    THEN [buffer |-> buf, written |-> written]
    ELSE
      LET grapheme == Head(string)
          w == unicode_width(grapheme)
          width == IF w > 1 THEN w ELSE 1
          target == index_of(buf, current_x, y)
          b1 == IF IsSome(target)
                  THEN [buf EXCEPT !.content[Unwrap(target) + 1] =
                          cell_set_style([@ EXCEPT !.symbol = grapheme], style)]
                  ELSE buf
          next_x == (current_x + width) % U16
          covered == {Unwrap(index_of(b1, next_x - width + i, y)) + 1 :
                        i \in {j \in 1..(width - 1) :
                                 IsSome(index_of(b1, next_x - width + j, y))}}
          b2 == [b1 EXCEPT !.content =
                   [k \in DOMAIN @ |->
                      IF k \in covered THEN [@[k] EXCEPT !.symbol = ""] ELSE @[k]]]
      IN  set_string_from(b2, next_x, y, Tail(string), style,
                          IF IsSome(target) THEN written + 1 ELSE written)

\* Buffer::set_string: the buffer afterwards and the count returned.
set_string(buf, x, y, string, style) == set_string_from(buf, x, y, string, style, 0)

\* Buffer::set_style: every (x, y) of `area`, taken as coordinates relative to
\* the buffer, that get_mut finds.
set_style(buf, area, style) ==
  LET styled == {Unwrap(index_of(buf, p[1], p[2])) + 1 :
                   p \in {q \in (left(area)..(right(area) - 1))
                                   \X (top(area)..(bottom(area) - 1)) :
                            IsSome(index_of(buf, q[1], q[2]))}}
  IN  [buf EXCEPT !.content =
         [k \in DOMAIN @ |->
            IF k \in styled THEN cell_set_style(@[k], style) ELSE @[k]]]

\* Buffer::clear
clear(buf) == [buf EXCEPT !.content = [k \in DOMAIN @ |-> cell_reset(@[k])]]

\* Mutant of resize: the new grid is indexed with the old width.
resize_old_stride(buf, area) ==
  LET min_height == min(buf.area.height, area.height)
      min_width == min(buf.area.width, area.width)
  IN  [area |-> area,
       content |->
         [k \in 1..(area.width * area.height) |->
            LET x == (k - 1) % buf.area.width
                y == (k - 1) \div buf.area.width
            IN  IF buf.area.width > 0 /\ x < min_width /\ y < min_height
                  THEN buf.content[y * buf.area.width + x + 1]
                  ELSE CellDefault]]

\* Buffer::resize: a grid of default cells for the new area, into which the
\* cells (x, y) with x < min_width and y < min_height are copied from index
\* y * old width + x to index y * new width + x.
resize(buf, area) ==
  LET min_height == min(buf.area.height, area.height)
      min_width == min(buf.area.width, area.width)
  IN  [area |-> area,
       content |->
         [new_idx \in 1..(area.width * area.height) |->
            LET x == (new_idx - 1) % area.width
                y == (new_idx - 1) \div area.width
            IN  IF x < min_width /\ y < min_height
                  THEN buf.content[y * buf.area.width + x + 1]
                  ELSE CellDefault]]

\* The coordinates (x, y) of a width x height grid in row-major scan order.
Scan(width, height) ==
  [k \in 1..(width * height) |-> <<(k - 1) % width, (k - 1) \div width>>]

\* The entries (x, y, cell of other) of diff for the coordinates `coords`.
RECURSIVE updates_of(_, _)
updates_of(other, coords) ==
  IF coords = <<>> THEN <<>>
  ELSE LET x == Head(coords)[1]
           y == Head(coords)[2]
           cell == get(other, x, y)
       IN  (IF IsSome(cell) THEN <<(<<x, y, Unwrap(cell)>>)>> ELSE <<>>)
             \o updates_of(other, Tail(coords))

\* Mutant of diff: the entries carry the cells of self.
diff_cells_of_self(buf, other) ==
  IF buf.area # other.area
    THEN updates_of(other, Scan(other.area.width, other.area.height))
    ELSE updates_of(buf,
           SelectSeq(Scan(buf.area.width, buf.area.height),
                     LAMBDA c : get(buf, c[1], c[2]) # get(other, c[1], c[2])))

\* Buffer::diff: every cell of other when the areas differ, else the cells
\* of other that differ from those of self, in scan order.
diff(buf, other) ==
  IF buf.area # other.area
    THEN updates_of(other, Scan(other.area.width, other.area.height))
    ELSE updates_of(other,
           SelectSeq(Scan(buf.area.width, buf.area.height),
                     LAMBDA c : get(buf, c[1], c[2]) # get(other, c[1], c[2])))

\* The body of merge's loops from the k-th cell of other in scan order.
\* offset + x is a u16 sum: past 65535 it panics in a build with overflow
\* checks and wraps around in one without.
RECURSIVE merge_from(_, _, _, _)
merge_from(buf, other, k, overflow_checks) ==
  IF k > other.area.width * other.area.height
    THEN [buffer |-> buf, panicked |-> FALSE]
    ELSE
      LET offset_x == saturating_sub(other.area.x, buf.area.x)
          offset_y == saturating_sub(other.area.y, buf.area.y)
          x == (k - 1) % other.area.width
          y == (k - 1) \div other.area.width
          cell == get(other, x, y)
          target_x == (offset_x + x) % U16
          target_y == (offset_y + y) % U16
          target == index_of(buf, target_x, target_y)
      IN  IF ~IsSome(cell) THEN merge_from(buf, other, k + 1, overflow_checks)
          ELSE IF overflow_checks /\ (offset_x + x >= U16 \/ offset_y + y >= U16)
            THEN [buffer |-> buf, panicked |-> TRUE]
          ELSE merge_from(
                 IF IsSome(target)
                   THEN [buf EXCEPT !.content[Unwrap(target) + 1] = Unwrap(cell)]
                   ELSE buf,
                 other, k + 1, overflow_checks)

\* Buffer::merge
merge(buf, other, overflow_checks) == merge_from(buf, other, 1, overflow_checks)

\* ------------------------------------------------------------------------
\* The state machine: one engine, driven by a host that may call any public
\* operation with any input.
\* ------------------------------------------------------------------------

VARIABLES
  loader,          \* DashboardEngine.loader: the FileLoader's cache
  watcher,         \* DashboardEngine.watcher: Option<FileWatcher>
  state,           \* DashboardEngine.state: DashboardState
  entry_file,      \* DashboardEngine.entry_file: Option<PathBuf>
  render_callback, \* DashboardEngine.render_callback is set
  error_overlay,   \* DashboardEngine.error_overlay: Option<ErrorOverlay>
  lastOp,          \* the last operation the host called, with its event
  lastResult,      \* what that operation returned
  lastCalls,       \* the calls that operation made on its parts, in order
  overlay,         \* an ErrorOverlay used on its own
  since,           \* overlay.timestamp.elapsed(), in ticks
  overlayOp,       \* the last operation called on overlay
  buffer,          \* a Buffer used on its own
  bufferOp,        \* the last operation called on buffer, and what it returned
  calls,           \* the number of calls made on buffer
  layout,          \* a Layout used on its own
  target,          \* the Rect an operation is called with: the area to split
  chunks,          \* what split returned, once it has been called
  panel,           \* what centered_rect returned for target, once called
  against,         \* the Rect target is compared with
  hit              \* what target.intersects(against) returned, once called

\* The variables of the engine.
engine_vars ==
  <<loader, watcher, state, entry_file, error_overlay, render_callback,
    lastOp, lastResult, lastCalls>>

\* The variables of the overlay used on its own.
overlay_vars == <<overlay, since, overlayOp>>

\* The variables of the buffer used on its own.
buffer_vars == <<buffer, bufferOp, calls>>

\* The variables of the layout and of the rects used on their own.
layout_vars == <<layout, target, chunks, panel, against, hit>>

vars == <<engine_vars, overlay_vars, buffer_vars, layout_vars>>

\* The fields of the engine.
fields == <<loader, watcher, state, entry_file, error_overlay, render_callback>>

\* The engine as the operation about to run sees it.
Engine ==
  [loader |-> loader, watcher |-> watcher, state |-> state,
   entry_file |-> entry_file, error_overlay |-> error_overlay,
   render_callback |-> render_callback, calls |-> <<>>]

\* No overlay is used on its own.
OverlayIdle ==
  /\ overlay = None
  /\ since = 0
  /\ overlayOp = "none"

\* DashboardEngine::new.  DashboardState::new() is not at hand: both initial
\* values of the dirty flag are admitted.
EngineNew ==
  /\ loader = FileLoaderNew
  /\ watcher = None
  /\ state \in {[dirty |-> d] : d \in BOOLEAN}
  /\ entry_file = None
  /\ error_overlay = None
  /\ render_callback = FALSE
  /\ lastOp = [name |-> "new", event |-> NoEvent]
  /\ lastResult = "Ok"
  /\ lastCalls = <<>>

\* No buffer is used on its own.
BufferIdle ==
  /\ buffer = None
  /\ bufferOp = [name |-> "none", written |-> 0]
  /\ calls = 0

\* No layout is used on its own.
LayoutIdle ==
  /\ layout = LayoutDefault
  /\ target = RectDefault
  /\ chunks = None
  /\ panel = None
  /\ against = RectDefault
  /\ hit = None

Init == EngineNew /\ OverlayIdle /\ BufferIdle /\ LayoutIdle

\* The process is alive: no operation has panicked.
Alive == lastResult # "Panic"

\* The host calls operation `name` (with `event`), which leaves the engine as
\* e and returns `result`.
Return(name, event, e, result) ==
  /\ Alive
  /\ loader' = e.loader
  /\ watcher' = e.watcher
  /\ state' = e.state
  /\ entry_file' = e.entry_file
  /\ error_overlay' = e.error_overlay
  /\ render_callback' = e.render_callback
  /\ lastOp' = [name |-> name, event |-> event]
  /\ lastResult' = result
  /\ lastCalls' = e.calls
  /\ UNCHANGED <<overlay_vars, buffer_vars, layout_vars>>

\* The sets of paths the watcher may refuse to register during one operation
\* (without a watcher nothing is registered, so nothing is refused).
RefusedSets == IF IsSome(watcher) THEN SUBSET Paths ELSE {{}}

\* Each operation that registers paths comes as OpR(refusals), the operation
\* with its set of refused paths drawn from `refusals`, and as Op, where any
\* path may be refused.

LoadR(refusals) ==
  \E entry \in Paths, refused \in refusals :
    \E file \in FileContents(entry) :
      LET out == load(Engine, entry, file, refused)
      IN  Return("load", NoEvent, out.e, out.result)

Load == LoadR(RefusedSets)

\* The file reload reads: the one at the entry path.
EntryContents ==
  IF IsSome(entry_file) THEN FileContents(Unwrap(entry_file))
  ELSE {[exists |-> FALSE, dependencies |-> <<>>]}

ReloadR(refusals) ==
  \E file \in EntryContents, refused \in refusals :
    LET out == reload(Engine, file, refused)
    IN  Return("reload", NoEvent, out.e, out.result)

Reload == ReloadR(RefusedSets)

\* The times since the overlay was shown that an update may observe (they
\* matter to an overlay with an auto-dismiss timer only).
ElapsedTimes ==
  IF IsSome(error_overlay) /\ IsSome(Unwrap(error_overlay).auto_dismiss_after)
    THEN 0..MaxElapsed
    ELSE {0}

Render ==
  \E size \in {None} \cup {Some(a) : a \in Sizes}, drawOk \in BOOLEAN,
     flushOk \in BOOLEAN, elapsed \in ElapsedTimes,
     overflow_checks \in IF IsSome(error_overlay) THEN BOOLEAN ELSE {FALSE} :
    LET out == render(Engine, size, drawOk, flushOk, elapsed, overflow_checks)
    IN  Return("render", NoEvent, out.e, out.result)

ShowError ==
  \E error \in EngineErrors :
    Return("show_error", NoEvent, show_error(Engine, error), "Ok")

DismissError ==
  Return("dismiss_error", NoEvent, dismiss_error(Engine), "Ok")

EnableHotReloadR(refusals) ==
  \E newOk \in BOOLEAN, refused \in refusals :
    LET out == enable_hot_reload_with_debounce(Engine, newOk, refused)
    IN  Return("enable_hot_reload", NoEvent, out.e, out.result)

EnableHotReload == EnableHotReloadR(SUBSET Paths)

DisableHotReload ==
  Return("disable_hot_reload", NoEvent, disable_hot_reload(Engine), "Ok")

PollChanges ==
  \E changed \in SUBSET Paths :
    Return("poll_changes", NoEvent, Engine,
           IF IsSome(poll_changes(Engine, changed)) THEN "Some" ELSE "None")

\* handle_event on an event that reloads.
HandleReloadEventR(refusals) ==
  \E event \in ReloadEvents, file \in EntryContents, refused \in refusals :
    LET out == handle_event(Engine, event, file, refused)
    IN  Return("handle_event", event, out.e, out.result)

HandleReloadEvent == HandleReloadEventR(RefusedSets)

\* handle_event on any other event; it reads no file and registers no path.
HandleEvent ==
  \E event \in Events \ ReloadEvents :
    LET out == handle_event(Engine, event, [exists |-> FALSE, dependencies |-> <<>>], {})
    IN  Return("handle_event", event, out.e, out.result)

\* DashboardEngine::set_render_callback
SetRenderCallback ==
  Return("set_render_callback", NoEvent,
         [Engine EXCEPT !.render_callback = TRUE], "Ok")

\* DashboardEngine::clear_render_callback
ClearRenderCallback ==
  Return("clear_render_callback", NoEvent,
         [Engine EXCEPT !.render_callback = FALSE], "Ok")

Next ==
  \/ Load
  \/ Reload
  \/ Render
  \/ ShowError
  \/ DismissError
  \/ EnableHotReload
  \/ DisableHotReload
  \/ PollChanges
  \/ HandleReloadEvent
  \/ HandleEvent
  \/ SetRenderCallback
  \/ ClearRenderCallback

Spec == Init /\ [][Next]_vars

\* The engine of a host that never calls show_error.
NextNoShowError ==
  \/ Load
  \/ Reload
  \/ Render
  \/ DismissError
  \/ EnableHotReload
  \/ DisableHotReload
  \/ PollChanges
  \/ HandleReloadEvent
  \/ HandleEvent
  \/ SetRenderCallback
  \/ ClearRenderCallback

SpecNoShowError == Init /\ [][NextNoShowError]_vars

\* The engine up to its first successful load: every load call so far has
\* returned an error.
NextBeforeLoad ==
  \/ Load /\ lastResult' # "Ok"
  \/ Reload
  \/ Render
  \/ ShowError
  \/ DismissError
  \/ EnableHotReload
  \/ DisableHotReload
  \/ PollChanges
  \/ HandleReloadEvent
  \/ HandleEvent
  \/ SetRenderCallback
  \/ ClearRenderCallback

SpecBeforeLoad == Init /\ [][NextBeforeLoad]_vars

\* The engine with a watcher that accepts every path it is given.
NextWatchOk ==
  \/ LoadR({{}})
  \/ ReloadR({{}})
  \/ Render
  \/ ShowError
  \/ DismissError
  \/ EnableHotReloadR({{}})
  \/ DisableHotReload
  \/ PollChanges
  \/ HandleReloadEventR({{}})
  \/ HandleEvent
  \/ SetRenderCallback
  \/ ClearRenderCallback

SpecWatchOk == Init /\ [][NextWatchOk]_vars

\* ------------------------------------------------------------------------
\* An ErrorOverlay used on its own: built from an error, then driven through
\* its public methods while time passes.
\* ------------------------------------------------------------------------

\* ErrorOverlay::from_engine_error: timestamp = Instant::now().
InitOverlay ==
  /\ EngineNew
  /\ BufferIdle
  /\ LayoutIdle
  /\ \E error \in EngineErrors : overlay = Some(ErrorOverlayNew(error))
  /\ since = 0
  /\ overlayOp = "new"

\* A method has turned the overlay into o, with its timestamp `elapsed` ago.
OverlayReturn(name, o, elapsed) ==
  /\ overlay' = Some(o)
  /\ since' = elapsed
  /\ overlayOp' = name
  /\ UNCHANGED <<engine_vars, buffer_vars, layout_vars>>

\* A fresh overlay object replaces the old one.
New ==
  \E error \in EngineErrors : OverlayReturn("new", ErrorOverlayNew(error), 0)

WithAutoDismiss ==
  \E duration \in 0..MaxDuration :
    OverlayReturn("with_auto_dismiss",
                  with_auto_dismiss(Unwrap(overlay), duration), since)

Dismiss == OverlayReturn("dismiss", dismiss(Unwrap(overlay)), since)

Show == OverlayReturn("show", show(Unwrap(overlay)), 0)

Update ==
  OverlayReturn("update", overlay_update(Unwrap(overlay), since), since)

\* Time passes.
TimePasses ==
  /\ since < MaxDuration
  /\ OverlayReturn("time", Unwrap(overlay), since + 1)

NextOverlay ==
  \/ New
  \/ WithAutoDismiss
  \/ Dismiss
  \/ Show
  \/ Update
  \/ TimePasses

SpecOverlay == InitOverlay /\ [][NextOverlay]_vars

\* ------------------------------------------------------------------------
\* A Buffer used on its own: built by new or filled, then written, styled,
\* cleared, resized and merged into.
\* ------------------------------------------------------------------------

\* The areas buffers are made for.
Areas ==
  {Rect(o, o, width, height) :
     o \in {0, 1}, width \in 0..MaxWidth, height \in 0..MaxHeight}

\* The strings written, as sequences of characters.
Texts == {<<"a">>, <<"W">>, <<"a", "W">>, <<"W", "b">>, <<"z">>}

\* The styles applied.
Styles ==
  {[fg |-> Some("Red"), bg |-> None, modifiers |-> {"BOLD"}],
   [fg |-> None, bg |-> Some("Blue"), modifiers |-> {"ITALIC"}]}

\* The buffers merged into buffer.
Others ==
  {BufferFilled(area, CellNew("b")) :
     area \in {Rect(0, 0, 1, 2), Rect(1, 1, 2, 1), Rect(U16 - 1, 0, 2, 1)}}

\* Buffer::new or Buffer::filled
InitBuffer ==
  /\ EngineNew
  /\ OverlayIdle
  /\ LayoutIdle
  /\ \E area \in Areas :
       buffer \in {Some(BufferNew(area)), Some(BufferFilled(area, CellNew("b")))}
  /\ bufferOp = [name |-> "new", written |-> 0]
  /\ calls = 0

\* The process is alive: no call on buffer has panicked.
BufferAlive == bufferOp.name # "panic"

\* A call has turned the buffer into buf and returned `written`.
BufferReturn(name, buf, written) ==
  /\ BufferAlive
  /\ calls < MaxCalls
  /\ buffer' = Some(buf)
  /\ bufferOp' = [name |-> name, written |-> written]
  /\ calls' = calls + 1
  /\ UNCHANGED <<engine_vars, overlay_vars, layout_vars>>

SetString ==
  \E x \in 0..MaxWidth, y \in 0..MaxHeight, string \in Texts, style \in Styles :
    LET out == set_string(Unwrap(buffer), x, y, string, style)
    IN  BufferReturn("set_string", out.buffer, out.written)

SetStyle ==
  \E area \in Areas, style \in Styles :
    BufferReturn("set_style", set_style(Unwrap(buffer), area, style), 0)

Clear == BufferReturn("clear", clear(Unwrap(buffer)), 0)

ResizeBuffer ==
  \E area \in Areas : BufferReturn("resize", resize(Unwrap(buffer), area), 0)

Merge ==
  \E other \in Others, overflow_checks \in BOOLEAN :
    LET out == merge(Unwrap(buffer), other, overflow_checks)
    IN  BufferReturn(IF out.panicked THEN "panic" ELSE "merge", out.buffer, 0)

NextBuffer ==
  \/ SetString
  \/ SetStyle
  \/ Clear
  \/ ResizeBuffer
  \/ Merge

SpecBuffer == InitBuffer /\ [][NextBuffer]_vars

\* A buffer on which only set_string is called.
SpecSetString == InitBuffer /\ [][SetString]_vars

\* ------------------------------------------------------------------------
\* A Layout used on its own: the host builds any layout and splits any area
\* with it.
\* ------------------------------------------------------------------------

\* Layout::direction
direction(l, d) == [l EXCEPT !.direction = d]

\* Layout::margin
margin(l, m) == [l EXCEPT !.margin = m]

\* Layout::constraints
constraints(l, cs) == [l EXCEPT !.constraints = cs]

RECURSIVE SeqsUpTo(_, _)
\* The sequences of at most n elements of S.
SeqsUpTo(S, n) ==
  IF n = 0 THEN {<<>>}
  ELSE LET shorter == SeqsUpTo(S, n - 1)
       IN  shorter \cup {Append(q, e) : q \in shorter, e \in S}

\* The constraints the host puts in a layout.
ConstraintSet ==
  {Length(10), Length(3), Percentage(50), Percentage(150), Ratio(1, 3),
   Ratio(3, 2), Ratio(1, 0), Min(5), Max(5), Fill(1)}

ConstraintLists == SeqsUpTo(ConstraintSet, MaxConstraints)

\* The areas the host splits: the last one ends at the edge of the u16
\* coordinates.
SplitAreas == {Rect(0, 0, 100, 100), Rect(2, 1, 10, 7), Rect(U16 - 6, U16 - 6, 5, 5)}

\* Layout::default().direction(d).margin(m).constraints(cs), and an area to
\* split.
InitLayout ==
  /\ EngineNew
  /\ OverlayIdle
  /\ BufferIdle
  /\ \E d \in {"Horizontal", "Vertical"}, m \in 0..MaxMargin, cs \in ConstraintLists :
       layout = constraints(margin(direction(LayoutDefault, d), m), cs)
  /\ target \in SplitAreas
  /\ chunks = None
  /\ panel = None
  /\ against = RectDefault
  /\ hit = None

\* layout.split(target), in a build with or without overflow checks
Split ==
  /\ chunks = None
  /\ \E overflow_checks \in BOOLEAN :
       chunks' = Some(split(layout, target, overflow_checks))
  /\ UNCHANGED <<engine_vars, overlay_vars, buffer_vars, layout, target, panel,
                 against, hit>>

NextLayout == Split

SpecLayout == InitLayout /\ [][NextLayout]_vars

\* ------------------------------------------------------------------------
\* The layout of the error panel: ErrorOverlay::render_error_panel splits
\* the inner area of its block.
\* ------------------------------------------------------------------------

\* The constraints of render_error_panel: spacer, error message, spacer,
\* location info, spacer, hints, footer.
PanelConstraints ==
  <<Length(1), Min(5), Length(1), Length(3), Length(1), Min(0), Length(2)>>

\* The inner areas of the panel's block.
PanelAreas ==
  {Rect(x, y, width, height) :
     x \in {0, 2}, y \in {0, 2}, width \in {0, 20}, height \in 0..MaxPanelHeight}

\* Layout::default().direction(Vertical).constraints([..]), about to split
\* the inner area
InitPanel ==
  /\ EngineNew
  /\ OverlayIdle
  /\ BufferIdle
  /\ layout = constraints(direction(LayoutDefault, "Vertical"), PanelConstraints)
  /\ target \in PanelAreas
  /\ chunks = None
  /\ panel = None
  /\ against = RectDefault
  /\ hit = None

SpecPanel == InitPanel /\ [][NextLayout]_vars

\* ------------------------------------------------------------------------
\* The panel of a visible overlay: ErrorOverlay::render centers it in the
\* area it is given.
\* ------------------------------------------------------------------------

\* The widths and heights of the areas: small ones, and those around the
\* sizes where 80 and 60 times the side reach 2^16.
Sides == (0..MaxSide) \cup {80, 819, 820, 1092, 1093, U16 - 1}

RenderAreas ==
  {Rect(x, y, width, height) : x \in {0, 3}, y \in {0, 3}, width \in Sides, height \in Sides}

\* A visible overlay is about to be rendered into target.
InitRender ==
  /\ EngineNew
  /\ OverlayIdle
  /\ BufferIdle
  /\ layout = LayoutDefault
  /\ target \in RenderAreas
  /\ chunks = None
  /\ panel = None
  /\ against = RectDefault
  /\ hit = None

\* ErrorOverlay::render of a visible overlay: centered_rect(80, 60, area), in
\* a build with or without overflow checks
CenteredRect ==
  /\ panel = None
  /\ \E overflow_checks \in BOOLEAN :
       panel' = Some(centered_rect(80, 60, target, overflow_checks))
  /\ UNCHANGED <<engine_vars, overlay_vars, buffer_vars, layout, target, chunks,
                 against, hit>>

NextRender == CenteredRect

SpecRender == InitRender /\ [][NextRender]_vars

\* ------------------------------------------------------------------------
\* Two Rects compared with intersects.
\* ------------------------------------------------------------------------

\* The rects that are compared: empty and not, and two at the edge of the
\* u16 coordinates, where right() saturates.
ComparedRects ==
  {Rect(x, y, width, height) :
     x \in 0..MaxCoord, y \in 0..1, width \in 0..MaxCoord, height \in 0..1}
  \cup {Rect(U16 - 2, 0, 2, 1), Rect(U16 - 1, 0, 1, 1)}

\* The x coordinates of the points of those rects.
PointsX == (0..(2 * MaxCoord)) \cup {U16 - 2, U16 - 1}

\* The y coordinates of the points of those rects.
PointsY == 0..2

InitRects ==
  /\ EngineNew
  /\ OverlayIdle
  /\ BufferIdle
  /\ layout = LayoutDefault
  /\ chunks = None
  /\ panel = None
  /\ target \in ComparedRects
  /\ against \in ComparedRects
  /\ hit = None

\* target.intersects(against)
Intersects ==
  /\ hit = None
  /\ hit' = Some(intersects(target, against))
  /\ UNCHANGED <<engine_vars, overlay_vars, buffer_vars, layout, target, chunks,
                 panel, against>>

NextRects == Intersects

SpecRects == InitRects /\ [][NextRects]_vars

\* ------------------------------------------------------------------------
\* Properties
\* ------------------------------------------------------------------------

\* has_error() of the engine as it is now.
HasError == has_error(Engine)

\* The last operation was handle_event on `event`.
Handled(event) == lastOp.name = "handle_event" /\ lastOp.event = event

\* C1: after any sequence of load, reload and handle_event calls (no
\* show_error), failed ones included, a render call whose size, draw and
\* flush succeed returns Ok, whatever the terminal size and the build.
C1_RenderAfterFailedLoad ==
  Alive =>
    \A size \in Sizes, elapsed \in 0..MaxElapsed, overflow_checks \in BOOLEAN :
      render(Engine, Some(size), TRUE, TRUE, elapsed, overflow_checks).result = "Ok"

\* C1 witness: render has returned Ok on an engine whose last reload failed
\* (the entry is recorded, its cache entry was invalidated and not reloaded).
C1_Witness ==
  /\ lastOp.name = "render"
  /\ lastResult = "Ok"
  /\ IsSome(entry_file)
  /\ ~IsSome(loader[Unwrap(entry_file)])

\* C2: the dirty flag goes from set to clear only in a render call that
\* returns Ok; a render call whose size, draw or flush fails returns the
\* error (or never gets to return) and leaves the flag as it was.
C2_DirtyClearedOnlyByRender ==
  /\ [](\A size \in {None} \cup {Some(a) : a \in Sizes}, drawOk \in BOOLEAN,
           flushOk \in BOOLEAN, elapsed \in 0..MaxElapsed, overflow_checks \in BOOLEAN :
          (~IsSome(size) \/ ~drawOk \/ ~flushOk) =>
            LET out == render(Engine, size, drawOk, flushOk, elapsed, overflow_checks)
            IN  out.result \in {"Render", "Panic"} /\ out.e.state = state)
  /\ [][/\ (state.dirty /\ ~state'.dirty) =>
             (lastOp'.name = "render" /\ lastResult' = "Ok")
        /\ (lastOp'.name = "render" /\ lastResult' # "Ok") => state' = state
       ]_vars

\* C2 witness: a render call has failed and the dirty flag is still set.
C2_Witness == lastOp.name = "render" /\ lastResult = "Render" /\ state.dirty

\* C3: right after a successful reload, called directly or through
\* handle_event, has_error() is false.
C3_ReloadDestroysOverlay ==
  (\/ lastOp.name = "reload" /\ lastResult = "Ok"
   \/ \E event \in ReloadEvents : Handled(event) /\ lastResult = "Render")
    => ~HasError

C5_ReloadNeedsSuccessfulLoad ==
  [][/\ lastOp'.name = "reload" => (lastResult' = "InvalidState" /\ UNCHANGED fields)
     /\ IsSome(entry_file) =>
          \A file \in EntryContents, refused \in RefusedSets :
            LET c == reload(Engine, file, refused).e.calls
            IN  /\ Len(c) >= 2
                /\ c[1] = Call("invalidate", Unwrap(entry_file), TRUE)
                /\ c[2].op = "load" /\ c[2].path = Unwrap(entry_file)
    ]_vars

\* C6: handle_event on a FileChange or Ctrl+R event returns Render exactly
\* when the reload it triggers succeeds, and returns that reload's error
\* otherwise.
C6_ReloadEventPropagates ==
  \A event \in ReloadEvents, file \in EntryContents, refused \in RefusedSets :
    LET before == IF event.kind = "FileChange"
                    THEN [Engine EXCEPT !.loader = loader_invalidate(@, event.path)]
                    ELSE Engine
        r == reload(before, file, refused)
        out == handle_event(Engine, event, file, refused)
    IN  /\ (out.result = "Render") <=> (r.result = "Ok")
        /\ r.result # "Ok" => out.result = r.result
        /\ out.reloaded = Some(r.result)

\* C6 witness: handle_event on a reload event has returned InvalidState.
C6_Witness ==
  /\ \E event \in ReloadEvents : Handled(event)
  /\ lastResult = "InvalidState"
  /\ ~IsSome(entry_file)

\* C7: handle_event on Ctrl+C returns Quit in every engine state and changes
\* no engine state.
C7_CtrlCQuits ==
  [][Handled(Key("c", TRUE))' => (lastResult' = "Quit" /\ UNCHANGED fields)]_vars

\* C7 witness: Ctrl+C has returned Quit on an engine with an entry loaded, an
\* overlay shown and hot reload enabled.
C7_Witness ==
  /\ Handled(Key("c", TRUE))
  /\ lastResult = "Quit"
  /\ IsSome(entry_file)
  /\ HasError
  /\ IsSome(watcher)

\* C8: handle_event on Ctrl+D dismisses a visible overlay, marks the state
\* dirty and returns Render, leaving entry file and loader cache alone; with
\* no visible overlay it returns None and changes nothing.
C8_CtrlDDismisses ==
  [][Handled(Key("d", TRUE))' =>
       IF HasError
         THEN /\ ~HasError'
              /\ state'.dirty
              /\ lastResult' = "Render"
              /\ entry_file' = entry_file
              /\ loader' = loader
         ELSE lastResult' = "None" /\ UNCHANGED fields
    ]_vars

\* C8 witness: Ctrl+D has dismissed the overlay of an engine with an entry
\* loaded.
C8_Witness ==
  /\ Handled(Key("d", TRUE))
  /\ lastResult = "Render"
  /\ ~HasError
  /\ state.dirty
  /\ IsSome(entry_file)

\* C9: a load or reload that returns Ok, handle_event on Resize (which returns
\* Render), show_error (which installs the overlay of its error, so
\* has_error() holds) and dismiss_error with an overlay present all end with
\* the dirty flag set.
C9_OperationsMarkDirty ==
  [][/\ (lastOp'.name \in {"load", "reload"} /\ lastResult' = "Ok") => state'.dirty
     /\ Handled(Resize)' => (lastResult' = "Render" /\ state'.dirty)
     /\ lastOp'.name = "show_error" => (state'.dirty /\ HasError')
     /\ \A error \in EngineErrors :
          show_error(Engine, error).error_overlay = Some(ErrorOverlayNew(error))
     /\ (lastOp'.name = "dismiss_error" /\ IsSome(error_overlay)) => state'.dirty
    ]_vars

\* C9 witness: show_error has replaced an overlay and the state is dirty.
C9_Witness ==
  /\ lastOp.name = "show_error"
  /\ state.dirty
  /\ HasError
  /\ Unwrap(error_overlay).title = "Invalid State"

\* C10: with hot reload enabled, an entry loaded and no watch call refused,
\* the entry path and its known dependencies are registered with the
\* current watcher.
C10_EntryAndDependenciesWatched ==
  (IsSome(watcher) /\ IsSome(entry_file)) =>
    LET watched == Unwrap(watcher).watched
        known == loader_get(loader, Unwrap(entry_file))
    IN  /\ Unwrap(entry_file) \in watched
        /\ IsSome(known) =>
             \A i \in 1..Len(Unwrap(known)) : Unwrap(known)[i] \in watched

\* C10 witness: hot reload was enabled after the load of an entry that has a
\* dependency.
C10_Witness ==
  /\ lastOp.name = "enable_hot_reload"
  /\ lastResult = "Ok"
  /\ IsSome(entry_file)
  /\ IsSome(loader[Unwrap(entry_file)])
  /\ Len(Unwrap(loader[Unwrap(entry_file)])) > 0

\* C11: poll_changes returns None exactly when hot reload is not enabled: it
\* is None on a new engine and right after disable_hot_reload, Some right
\* after an enable_hot_reload that returned Ok, and is_hot_reload_enabled()
\* is true exactly when poll_changes would return Some.
C11_PollNoneIffDisabled ==
  /\ [](\A changed \in SUBSET Paths :
          LET polled == poll_changes(Engine, changed)
          IN  /\ IsSome(polled) <=> is_hot_reload_enabled(Engine)
              /\ lastOp.name \in {"new", "disable_hot_reload"} => ~IsSome(polled)
              /\ (lastOp.name = "enable_hot_reload" /\ lastResult = "Ok")
                   => IsSome(polled))
  /\ [][lastOp'.name = "poll_changes" =>
          ((lastResult' = "None") <=> ~is_hot_reload_enabled(Engine))]_vars

\* C11 witness: poll_changes has returned None on an engine with an entry
\* loaded and hot reload not enabled.
C11_Witness ==
  /\ lastOp.name = "poll_changes"
  /\ lastResult = "None"
  /\ IsSome(entry_file)
  /\ ~is_hot_reload_enabled(Engine)

\* C12: a newly constructed ErrorOverlay is visible; update() on a visible
\* overlay with auto-dismiss duration d hides it exactly when at least d has
\* elapsed since its timestamp; update() never shows a hidden overlay, and
\* without a duration it never changes visibility.
C12_UpdateHidesAtDeadline ==
  [][/\ overlayOp' = "new" => is_visible(Unwrap(overlay'))
     /\ overlayOp' = "update" =>
          LET o == Unwrap(overlay)
              d == o.auto_dismiss_after
          IN  IF IsSome(d)
                THEN is_visible(Unwrap(overlay')) <=>
                       (is_visible(o) /\ since < Unwrap(d))
                ELSE is_visible(Unwrap(overlay')) = is_visible(o)
    ]_vars

\* C12 witness: update() has hidden an overlay at the very tick its non-zero
\* auto-dismiss duration elapsed.
C12_Witness ==
  /\ overlayOp = "update"
  /\ ~is_visible(Unwrap(overlay))
  /\ IsSome(Unwrap(overlay).auto_dismiss_after)
  /\ since = Unwrap(Unwrap(overlay).auto_dismiss_after)
  /\ since > 0

\* C13 as stated: dismiss() hides the overlay, and once hidden no later
\* operation on the same overlay object makes it visible again.
C13_HiddenIsTerminal ==
  [][/\ overlayOp' = "dismiss" => ~is_visible(Unwrap(overlay'))
     /\ (~is_visible(Unwrap(overlay)) /\ overlayOp' # "new")
          => ~is_visible(Unwrap(overlay'))
    ]_vars

\* C13 as amended: dismiss() hides the overlay; a hidden overlay stays hidden
\* under update(), dismiss(), with_auto_dismiss() and the passing of time;
\* show() makes it visible again.
C13_HiddenUntilShow ==
  [][/\ overlayOp' = "dismiss" => ~is_visible(Unwrap(overlay'))
     /\ (~is_visible(Unwrap(overlay)) /\ overlayOp' \notin {"new", "show"})
          => ~is_visible(Unwrap(overlay'))
     /\ overlayOp' = "show" => is_visible(Unwrap(overlay'))
    ]_vars

\* C13 witness: update() has run on a hidden overlay whose deadline has not
\* arrived, and the overlay is still hidden.
C13_Witness ==
  /\ overlayOp = "update"
  /\ ~is_visible(Unwrap(overlay))
  /\ IsSome(Unwrap(overlay).auto_dismiss_after)
  /\ since < Unwrap(Unwrap(overlay).auto_dismiss_after)

\* The buffer used on its own.
Buf == Unwrap(buffer)

\* C14: after new or filled and any calls of set_string, set_style, clear,
\* resize and merge, the content has area.width * area.height cells, and
\* get / get_mut find a cell exactly at the (x, y) with x < width and
\* y < height, at an index inside the content.
C14_ContentMatchesArea ==
  IsSome(buffer) =>
    /\ Len(Buf.content) = Buf.area.width * Buf.area.height
    /\ DOMAIN Buf.content = 1..(Buf.area.width * Buf.area.height)
    /\ \A x \in 0..(MaxWidth + 1) \cup {U16 - 1}, y \in 0..(MaxHeight + 1) \cup {U16 - 1} :
         LET i == index_of(Buf, x, y)
             inside == x < Buf.area.width /\ y < Buf.area.height
         IN  /\ IsSome(i) <=> inside
             /\ IsSome(i) => Unwrap(i) + 1 \in DOMAIN Buf.content
             /\ IsSome(get(Buf, x, y)) <=> inside

\* C14 witness: a buffer written to and then resized to another width still
\* holds a cell that is not the default one.
C14_Witness ==
  /\ bufferOp.name = "resize"
  /\ calls = 2
  /\ Buf.area.width = MaxWidth
  /\ \E k \in DOMAIN Buf.content : Buf.content[k] # CellDefault /\ Buf.content[k].symbol # "b"

\* The properties of d = a.diff(b) that the claim C15 states.
DiffIsExact(a, b, d) ==
  IF a.area = b.area
    THEN
      LET width == a.area.width
          height == a.area.height
          differs(x, y) == get(a, x, y) # get(b, x, y)
      IN  /\ \A i \in 1..Len(d) :
               /\ d[i][1] < width /\ d[i][2] < height
               /\ differs(d[i][1], d[i][2])
               /\ Some(d[i][3]) = get(b, d[i][1], d[i][2])
          /\ \A x \in 0..(width - 1), y \in 0..(height - 1) :
               differs(x, y) =>
                 Cardinality({i \in 1..Len(d) : d[i][1] = x /\ d[i][2] = y}) = 1
          /\ \A i, j \in 1..Len(d) :
               i < j => d[i][2] * width + d[i][1] < d[j][2] * width + d[j][1]
    ELSE
      /\ Len(d) = b.area.width * b.area.height
      /\ \A k \in 1..Len(d) :
           d[k] = <<(k - 1) % b.area.width, (k - 1) \div b.area.width, b.content[k]>>

\* C15: for a buffer a and the buffer b one call makes of it, a.diff(b) and
\* b.diff(a) list, when the areas are equal, exactly the coordinates where
\* the cells differ, each once, in row-major order, with the cell of the
\* argument; a.diff(a) is empty; when the areas differ they list every cell
\* of the argument.
C15_DiffIsExact ==
  [][LET a == Unwrap(buffer)
         b == Unwrap(buffer')
     IN  /\ DiffIsExact(a, b, diff(a, b))
         /\ DiffIsExact(b, a, diff(b, a))
         /\ diff(a, a) = <<>>
         /\ diff(b, b) = <<>>
    ]_vars

\* C15 witness: a buffer that differs from the fresh buffer of its area in
\* some cells but not in all, by a diff of two entries or more.
C15_Witness ==
  /\ IsSome(buffer)
  /\ calls > 0
  /\ LET d == diff(BufferNew(Buf.area), Buf)
     IN  Len(d) >= 2 /\ Len(d) < Len(Buf.content)

\* C16: resize(new_area) sets the area to new_area, keeps the cell at every
\* (x, y) with x < min(old width, new width) and y < min(old height, new
\* height), and makes every other cell of the resized buffer the default.
C16_ResizeKeepsOverlap ==
  IsSome(buffer) =>
    \A new_area \in Areas :
      LET r == resize(Buf, new_area)
      IN  /\ r.area = new_area
          /\ Len(r.content) = new_area.width * new_area.height
          /\ \A x \in 0..(new_area.width - 1), y \in 0..(new_area.height - 1) :
               get(r, x, y) =
                 IF x < min(Buf.area.width, new_area.width)
                      /\ y < min(Buf.area.height, new_area.height)
                   THEN get(Buf, x, y)
                   ELSE Some(CellDefault)

\* C16 witness: a resize to a wider and higher area has kept a written cell
\* of the second row and filled the new column with default cells.
C16_Witness ==
  /\ bufferOp.name = "resize"
  /\ Buf.area.width = MaxWidth /\ Buf.area.height = MaxHeight
  /\ get(Buf, 0, 1) \notin {Some(CellDefault), Some(CellNew("b"))}
  /\ get(Buf, MaxWidth - 1, 0) = Some(CellDefault)
  /\ get(Buf, MaxWidth - 1, 1) = Some(CellDefault)

\* The display width set_string advances by: at least 1.
DisplayWidth(grapheme) == max(unicode_width(grapheme), 1)

\* The columns of row y covered by the glyphs of `string` that start, with
\* the cursor first at x, before the right edge of buf.
RECURSIVE ColumnsWritten(_, _, _, _)
ColumnsWritten(buf, x, y, string) ==
  IF string = <<>> \/ x >= buf.area.width \/ y >= buf.area.height THEN {}
  ELSE {c \in x..(x + DisplayWidth(Head(string)) - 1) : c < buf.area.width}
         \cup ColumnsWritten(buf, x + DisplayWidth(Head(string)), y, Tail(string))

\* C17: set_string returns the number of columns it wrote (cells touched),
\* and changes no cell of another row or outside the columns its glyphs
\* cover before the right edge.
C17_SetStringCountsColumns ==
  IsSome(buffer) =>
    \A x \in 0..MaxWidth, y \in 0..MaxHeight, string \in Texts, style \in Styles :
      LET out == set_string(Buf, x, y, string, style)
          columns == ColumnsWritten(Buf, x, y, string)
      IN  /\ out.written = Cardinality(columns)
          /\ out.buffer.area = Buf.area
          /\ \A cx \in 0..(Buf.area.width - 1), cy \in 0..(Buf.area.height - 1) :
               (cy # y \/ cx \notin columns)
                 => get(out.buffer, cx, cy) = get(Buf, cx, cy)

\* C18: after any calls of set_string, the cell to the right of a cell that
\* holds a wide glyph holds the empty glyph.
C18_ContinuationIsEmpty ==
  IsSome(buffer) =>
    \A x \in 0..(Buf.area.width - 2), y \in 0..(Buf.area.height - 1) :
      unicode_width(Unwrap(get(Buf, x, y)).symbol) = 2
        => Unwrap(get(Buf, x + 1, y)).symbol = ""

\* C19: set_style(area, style) merges the style into every cell of the
\* intersection of area with the buffer's own area, and changes no other
\* cell, wherever the buffer's origin is.  The cell that index_of finds at
\* (x, y) is the one at column area.x + x, row area.y + y of the screen.
C19_SetStyleOnIntersection ==
  IsSome(buffer) =>
    \A area \in Areas, style \in Styles :
      LET r == set_style(Buf, area, style)
      IN  /\ r.area = Buf.area
          /\ \A x \in 0..(Buf.area.width - 1), y \in 0..(Buf.area.height - 1) :
               get(r, x, y) =
                 IF contains(area, Buf.area.x + x, Buf.area.y + y)
                   THEN Some(cell_set_style(Unwrap(get(Buf, x, y)), style))
                   ELSE get(Buf, x, y)


\* ------------------------------------------------------------------------
\* Layout
\* ------------------------------------------------------------------------

\* What split returned.
Chunks == Unwrap(chunks).rects

\* split has been called and has returned.
SplitReturned == IsSome(chunks) /\ ~Unwrap(chunks).panicked

\* A Rect's position and size along the axis split divides, and across it.
MainPos(r) == IF layout.direction = "Horizontal" THEN r.x ELSE r.y

MainSize(r) == IF layout.direction = "Horizontal" THEN r.width ELSE r.height

CrossPos(r) == IF layout.direction = "Horizontal" THEN r.y ELSE r.x

CrossSize(r) == IF layout.direction = "Horizontal" THEN r.height ELSE r.width

\* The sum of the main-axis sizes of the first i rects of a list.
RECURSIVE MainSizesBefore(_, _)
MainSizesBefore(rects, i) ==
  IF i = 1 THEN 0 ELSE MainSizesBefore(rects, i - 1) + MainSize(rects[i - 1])

\* The i-th rect answers to a constraint: no more than a Length or a Max
\* asks for, no less than a Min, nothing for a Ratio over zero.
AnswersTo(r, constraint) ==
  CASE constraint.kind \in {"Length", "Max"} -> MainSize(r) <= constraint.n
    [] constraint.kind = "Min" -> MainSize(r) >= constraint.n
    [] constraint.kind = "Ratio" /\ constraint.d = 0 -> MainSize(r) = 0
    [] OTHER -> TRUE

\* C20: whenever Layout.split returns, it returns exactly one Rect per
\* constraint, in constraint order (the i-th rect answers to the i-th
\* constraint and starts where the rects before it end, in u16 arithmetic),
\* each with the cross-axis position and size of the margin-applied area;
\* with no constraints it returns a single Rect equal to area.inner(margin).
C20_OneRectPerConstraint ==
  SplitReturned =>
    LET a == inner(target, layout.margin)
    IN  IF layout.constraints = <<>>
          THEN Chunks = <<a>>
          ELSE /\ Len(Chunks) = Len(layout.constraints)
               /\ \A i \in 1..Len(Chunks) :
                    /\ CrossPos(Chunks[i]) = CrossPos(a)
                    /\ CrossSize(Chunks[i]) = CrossSize(a)
                    /\ MainPos(Chunks[i])
                         = (MainPos(a) + MainSizesBefore(Chunks, i)) % U16
                    /\ AnswersTo(Chunks[i], layout.constraints[i])

\* C20 witness: split has returned three rects for three constraints of a
\* layout with a margin, and the margin-applied area differs from the area
\* in its cross-axis position and size.
C20_Witness ==
  /\ SplitReturned
  /\ Len(layout.constraints) = 3
  /\ Len(Chunks) = 3
  /\ layout.margin > 0
  /\ CrossPos(Chunks[3]) # CrossPos(target)
  /\ CrossSize(Chunks[3]) # CrossSize(target)
  /\ MainSize(Chunks[2]) > 0

\* C20 witness of the empty case: split has returned the margin-applied
\* area for a layout with a margin and no constraints.
C20_WitnessEmpty ==
  /\ SplitReturned
  /\ layout.constraints = <<>>
  /\ layout.margin > 0
  /\ Chunks = <<inner(target, layout.margin)>>
  /\ Chunks # <<target>>


\* The positions of the Fill constraints of the layout.
FillPositions == {i \in 1..Len(layout.constraints) : layout.constraints[i].kind = "Fill"}

\* The main-axis length of the margin-applied area.
Whole == main_axis_size(layout.direction, inner(target, layout.margin))

\* What the first pass leaves to the Fill constraints.
Remaining == first_pass(layout.constraints, Whole, <<>>, Whole, 0).remaining

\* The sum of the main-axis sizes of the rects at the positions of a set.
RECURSIVE MainSizeOver(_, _)
MainSizeOver(rects, positions) ==
  IF positions = {} THEN 0
  ELSE LET i == CHOOSE i \in positions : TRUE
       IN  MainSize(rects[i]) + MainSizeOver(rects, positions \ {i})

\* The main-axis sizes of what split returned.
MainSizes == [i \in 1..Len(Chunks) |-> MainSize(Chunks[i])]

\* C21: when the non-Fill constraints leave remaining space R, the N Fill(1)
\* constraints get sizes that sum to exactly R, each R/N or one more, the
\* R mod N extra units going to the earliest Fill constraints in input
\* order; a 100x100 area split vertically by [Length(10), Fill(1),
\* Length(10)] gives heights [10, 80, 10], and by [Length(10), Fill(1),
\* Fill(1)] gives [10, 45, 45].
C21_FillSharesRemaining ==
  (SplitReturned /\ FillPositions # {}) =>
    LET N == Cardinality(FillPositions)
        R == Remaining
    IN  /\ MainSizeOver(Chunks, FillPositions) = R
        /\ \A i \in FillPositions :
             LET earlier == Cardinality({j \in FillPositions : j < i})
             IN  MainSize(Chunks[i]) = (R \div N) + (IF earlier < R % N THEN 1 ELSE 0)
        /\ (/\ target = Rect(0, 0, 100, 100)
            /\ layout = [direction |-> "Vertical", margin |-> 0,
                         constraints |-> <<Length(10), Fill(1), Length(10)>>])
             => MainSizes = <<10, 80, 10>>
        /\ (/\ target = Rect(0, 0, 100, 100)
            /\ layout = [direction |-> "Vertical", margin |-> 0,
                         constraints |-> <<Length(10), Fill(1), Fill(1)>>])
             => MainSizes = <<10, 45, 45>>

\* C21 witness: split has returned for a layout of a non-Fill constraint
\* and two Fill constraints that share an odd remainder, the first of them
\* one larger than the second.
C21_Witness ==
  /\ SplitReturned
  /\ Cardinality(FillPositions) = 2
  /\ Len(layout.constraints) = 3
  /\ Remaining % 2 = 1
  /\ Remaining < Whole
  /\ \E i, j \in FillPositions :
       i < j /\ MainSize(Chunks[i]) = MainSize(Chunks[j]) + 1


\* C22: in Layout.split the size of a Percentage or a Ratio constraint is
\* computed from the original main-axis size, not from what earlier
\* constraints left: Percentage(p) gives size * min(p, 100) / 100, so the
\* full size for p > 100 (100 for Percentage(150) on 100), Ratio(n, d) gives
\* size * n / d (the quotients of the ratios used here fit in u16), and
\* Ratio(n, 0) gives 0.
C22_ShareOfOriginalSize ==
  SplitReturned =>
    \A i \in 1..Len(layout.constraints) :
      LET constraint == layout.constraints[i]
      IN  /\ constraint.kind = "Percentage" =>
               /\ MainSize(Chunks[i]) = (Whole * min(constraint.n, 100)) \div 100
               /\ constraint.n > 100 => MainSize(Chunks[i]) = Whole
               /\ (constraint.n = 150 /\ Whole = 100) => MainSize(Chunks[i]) = 100
          /\ constraint.kind = "Ratio" =>
               IF constraint.d = 0
                 THEN MainSize(Chunks[i]) = 0
                 ELSE MainSize(Chunks[i]) = (Whole * constraint.n) \div constraint.d

\* C22 witness: split has returned for a layout in which a Percentage(50)
\* follows a constraint that took space, and its rect is half of the whole
\* length, which is more than half of what was left, and a Ratio(1, 3)
\* after both is a third of the whole length.
C22_Witness ==
  /\ SplitReturned
  /\ Whole = 100
  /\ layout.constraints = <<Length(10), Percentage(50), Ratio(1, 3)>>
  /\ MainSizes = <<10, 50, 33>>

\* C22 witness of the limits: Percentage(150) on 100 and Ratio(1, 0).
C22_WitnessLimits ==
  /\ SplitReturned
  /\ Whole = 100
  /\ layout.constraints = <<Percentage(150), Ratio(1, 0)>>
  /\ MainSizes = <<100, 0>>


\* The margin-applied area.
Inner == inner(target, layout.margin)

\* C29: every Rect returned by Layout.split lies inside the margin-applied
\* area: the sizes sum to at most the main-axis size and the far edge of
\* each rect is at most the far edge of the area, for every list of
\* constraints, over-subscribed ones included.
C29_RectsInsideArea ==
  (SplitReturned /\ layout.constraints # <<>>) =>
    /\ MainSizeOver(Chunks, 1..Len(Chunks)) <= Whole
    /\ \A i \in 1..Len(Chunks) :
         /\ MainPos(Chunks[i]) >= MainPos(Inner)
         /\ MainPos(Chunks[i]) + MainSize(Chunks[i]) <= MainPos(Inner) + Whole

\* The sizes after the first two passes of split.
SizesBeforeThirdPass ==
  LET first == first_pass(layout.constraints, Whole, <<>>, Whole, 0)
  IN  second_pass(layout.constraints, first.sizes, first.remaining, first.fill_count)

\* C30: in Layout.split the third pass never changes a size: after the
\* first two passes every Min(n) constraint has a size of at least n and
\* every Max(n) constraint a size of at most n, for every area and every
\* list of constraints.
C30_ThirdPassChangesNothing ==
  IsSome(chunks) =>
    /\ third_pass(layout.constraints, SizesBeforeThirdPass) = SizesBeforeThirdPass
    /\ \A i \in 1..Len(layout.constraints) :
         LET constraint == layout.constraints[i]
         IN  /\ constraint.kind = "Min" => SizesBeforeThirdPass[i] >= constraint.n
             /\ constraint.kind = "Max" => SizesBeforeThirdPass[i] <= constraint.n
    /\ SplitReturned /\ layout.constraints # <<>> => MainSizes = SizesBeforeThirdPass

\* C30 witness: split has returned for a layout whose Min(5) found less
\* than 5 left and whose Max(5) found more than 5 left, and both have the
\* size 5 before the third pass.
C30_Witness ==
  /\ SplitReturned
  /\ layout.constraints = <<Max(5), Length(3), Min(5)>>
  /\ Whole = 10
  /\ SizesBeforeThirdPass = <<5, 3, 5>>
  /\ MainSizes = <<5, 3, 5>>


\* C24: when the inner area of the error panel is at least 13 rows high,
\* the vertical layout of the overlay gives the message section (the second
\* rect) at least 5 rows, the location section (the fourth) 3 rows and the
\* footer (the seventh) 2 rows, so the location line and the footer have
\* non-empty areas to draw in.
C24_PanelSectionsHaveRows ==
  (SplitReturned /\ layout.constraints = PanelConstraints /\ target.height >= 13) =>
    /\ Chunks[2].height >= 5
    /\ Chunks[4].height = 3
    /\ Chunks[7].height = 2
    /\ target.width > 0 => \A i \in {2, 4, 7} : Chunks[i].width * Chunks[i].height > 0


\* The panel centered_rect returned.
Panel == Unwrap(panel).rect

\* C25: for every area with 16-bit width and height, centered_rect(80, 60,
\* area) returns a panel that lies inside area with equal left/right and
\* equal top/bottom margins, whose width is floor(80% of area.width) or one
\* more and whose height is floor(60% of area.height) or one more; and the
\* intermediate products area.width * 80 and area.height * 60 stay within
\* the 16-bit range.
C25_PanelCenteredInArea ==
  IsSome(panel) =>
    /\ target.width * 80 < U16
    /\ target.height * 60 < U16
    /\ ~Unwrap(panel).panicked
    /\ Panel.x >= target.x
    /\ Panel.y >= target.y
    /\ Panel.x + Panel.width <= target.x + target.width
    /\ Panel.y + Panel.height <= target.y + target.height
    /\ Panel.x - target.x = (target.x + target.width) - (Panel.x + Panel.width)
    /\ Panel.y - target.y = (target.y + target.height) - (Panel.y + Panel.height)
    /\ Panel.width - ((target.width * 80) \div 100) \in {0, 1}
    /\ Panel.height - ((target.height * 60) \div 100) \in {0, 1}


\* Some point is in both rects.
SharePoint(r, o) ==
  \E x \in PointsX, y \in PointsY : contains(r, x, y) /\ contains(o, x, y)

\* C26: Rect.intersects follows half-open interval semantics:
\* a.intersects(b) is true exactly when some point (x, y) has
\* a.contains(x, y) and b.contains(x, y), including when either rectangle
\* has zero width or height, and a.intersects(b) equals b.intersects(a).
C26_IntersectsIffSharedPoint ==
  IsSome(hit) =>
    /\ Unwrap(hit) = SharePoint(target, against)
    /\ Unwrap(hit) = intersects(against, target)


\* ------------------------------------------------------------------------
\* DashboardEngine::render, step by step
\* ------------------------------------------------------------------------

\* The names of the calls the last operation made, in order.
LastSteps == [i \in 1..Len(lastCalls) |-> lastCalls[i].op]

\* The steps of a render that runs to its end in the engine as it is after
\* that render (render leaves the callback, the entry and the presence of
\* the overlay as they were, and the overlay as update left it).
RenderSteps ==
  <<"size">>
  \o <<IF render_callback THEN "callback"
       ELSE IF IsSome(entry_file) THEN "render_placeholder"
       ELSE "render_empty_state">>
  \o (IF IsSome(error_overlay)
        THEN IF is_visible(Unwrap(error_overlay))
               THEN <<"update", "overlay_render">>
               ELSE <<"update">>
        ELSE <<>>)
  \o <<"draw", "flush">>

\* C23, on the state after a render: the steps it ran are the first steps of
\* size, content (the callback if set, else the placeholder of a loaded
\* entry, else the empty placeholder), overlay update, overlay render only
\* if the overlay is visible after the update, draw, flush; every step but
\* the last succeeded; render returns Ok exactly when all of them ran and
\* succeeded, and then the dirty flag is clear; it returns its error exactly
\* when the last step it ran is a size, draw or flush that failed; and a
\* render that panics (centered_rect out of the u16 range) stops in the
\* overlay render.
C23_StepsInOrder ==
  lastOp.name = "render" =>
    /\ Len(LastSteps) <= Len(RenderSteps)
    /\ LastSteps = SubSeq(RenderSteps, 1, Len(LastSteps))
    /\ \A i \in 1..(Len(lastCalls) - 1) : lastCalls[i].ok
    /\ lastResult \in {"Ok", "Render", "Panic"}
    /\ lastResult = "Ok" <=>
         (LastSteps = RenderSteps /\ \A i \in 1..Len(lastCalls) : lastCalls[i].ok)
    /\ lastResult = "Ok" => ~state.dirty
    /\ lastResult = "Render" <=>
         (/\ ~lastCalls[Len(lastCalls)].ok
          /\ LastSteps[Len(LastSteps)] \in {"size", "draw", "flush"})
    /\ lastResult = "Panic" => LastSteps[Len(LastSteps)] = "overlay_render"

\* C23: within one render call the steps happen in this order: size,
\* content, overlay update, overlay render only if the overlay is still
\* visible, draw, flush, clear dirty; a failing step returns its error and
\* none of the later steps run (the dirty flag is then as it was).
C23_RenderOrder ==
  /\ []C23_StepsInOrder
  /\ [][(lastOp'.name = "render" /\ lastResult' # "Ok") => state' = state]_vars

\* C23 witness: a render of an engine with a callback and an overlay ran
\* size, callback, update, overlay_render and draw, draw failed, flush did
\* not run and the dirty flag is still set.
C23_Witness ==
  /\ lastOp.name = "render"
  /\ lastResult = "Render"
  /\ LastSteps = <<"size", "callback", "update", "overlay_render", "draw">>
  /\ state.dirty

\* C23 witness of the whole order: a render ran all the steps of an engine
\* with a loaded entry and an overlay, and cleared the dirty flag.
C23_WitnessOk ==
  /\ lastOp.name = "render"
  /\ lastResult = "Ok"
  /\ LastSteps = <<"size", "render_placeholder", "update", "overlay_render",
                   "draw", "flush">>
  /\ ~state.dirty


\* C27: in every reachable engine state has_error() is true exactly when
\* error_overlay() is present: an overlay owned by the engine is visible and
\* has no auto-dismiss duration, so the update() of render never hides it,
\* and dismiss_error and Ctrl+D remove it rather than hide it.
C27_HasErrorIffOverlay ==
  /\ has_error(Engine) <=> IsSome(error_overlay)
  /\ IsSome(error_overlay) =>
       /\ is_visible(Unwrap(error_overlay))
       /\ Unwrap(error_overlay).auto_dismiss_after = None
  /\ (\/ lastOp.name = "dismiss_error"
      \/ lastOp.name = "handle_event" /\ lastOp.event = Key("d", TRUE))
       => error_overlay = None

\* C27 witness: a render has updated and rendered the overlay the engine
\* owns, and has_error() is still true.
C27_Witness ==
  /\ lastOp.name = "render"
  /\ "update" \in {lastCalls[i].op : i \in 1..Len(lastCalls)}
  /\ IsSome(error_overlay)
  /\ has_error(Engine)


\* C28: a load call that returns an error leaves entry_file() and the dirty
\* flag exactly as they were before the call, whether the error comes from
\* the loader or from registering a path with the watcher; so a failed load
\* after a successful one keeps the earlier entry path.
C28_FailedLoadChangesNothing ==
  [][(lastOp'.name = "load" /\ lastResult' # "Ok")
       => (entry_file' = entry_file /\ state' = state)]_vars

====
